---- MODULE Spec2Model ----
(***************************************************************************)
(* Authorization and access control of the ACI Dashboard backend: the      *)
(* credential store (users, roles, tools and their associations), the      *)
(* user service that writes it, the permission resolver, and the           *)
(* per-request access guard that resolves a bearer token to a user.        *)
(*                                                                         *)
(* Requests are serialised: a service call or a guarded request runs from  *)
(* its first step to its response before the next one starts.              *)
(***************************************************************************)
EXTENDS Integers, FiniteSets, Sequences, TLC

\* ------------------------------------------------------------------ bounds

\* user ids the store hands out in the store specification (SpecStore)
MaxUsers == 2
\* user ids the store hands out in the request specification (Spec)
MaxReqUsers == 1
\* login sessions (token pairs) issued in one behaviour
MaxSessions == 1
\* clock advances in one behaviour
MaxTicks == 1
\* access tokens issued by refresh in one behaviour
MaxRefreshes == 1
\* requests one client sends in rapid succession
MaxBurst == 100

\* ------------------------------------------------------- program constants

REFRESH_TOKEN_EXPIRE_DAYS == 7
\* requests a client may make in one window
RATE_LIMIT_REQUESTS == 100
\* faulty variant: an access token is given the lifetime of a refresh token
ACCESS_TOKEN_EXPIRE_AS_REFRESH == REFRESH_TOKEN_EXPIRE_DAYS * 24 * 60
ACCESS_TOKEN_EXPIRE_MINUTES == 30

\* ------------------------------------------------------------------ values

None == <<>>
Some(x) == <<x>>
IsSet(o) == Len(o) = 1
Get(o) == o[1]

NoUser == 0
NoSubject == "-"

\* str.lower() on the names the model draws its inputs from
Lower(s) ==
    CASE s = "Alice" -> "alice"
      [] s = "Bob" -> "bob"
      [] s = "A@aci.com" -> "a@aci.com"
      [] s = "B@aci.com" -> "b@aci.com"
      [] s = "Superuser" -> "superuser"
      [] OTHER -> s

IsLower(s) == Lower(s) = s

\* the tools of the seed data: compare_tool, x_tool
ToolIds == {1, 2}
\* a tool id no row has
MissingToolId == Cardinality(ToolIds) + 1
SeedTools ==
    (1 :> [name |-> "compare_tool", is_active |-> TRUE]) @@
    (2 :> [name |-> "x_tool", is_active |-> TRUE])

\* the roles of the seed data
SeedRoles ==
    (1 :> "superuser") @@ (2 :> "manager") @@ (3 :> "user") @@ (4 :> "operator")
\* the id the next created role gets
NewRoleId == Cardinality(DOMAIN SeedRoles) + 1

VARIABLES
    users,      \* users table joined with user_roles and user_tools: id -> row
    nextId,     \* the users id sequence
    roles,      \* roles table: id -> name
    tools,      \* tools table: id -> [name, is_active]
    now,        \* wall clock, minutes
    issued,     \* tokens signed so far (held by clients)
    req,        \* the call or request being served
    gs,         \* Access Guard state of the request being served
    cur,        \* the user the guard resolved (current_user)
    resp,       \* the response to req; status 0 while there is none
    trail,      \* the last promotion to superuser and whether a demotion followed
    limiter,    \* RateLimiter: client identifier -> requests counted in the window
    procs,      \* concurrent service calls: worker -> its position and session state
    db_session  \* the database session of the request being served

vars == <<users, nextId, roles, tools, now, issued, req, gs, cur, resp, trail,
          limiter, procs, db_session>>

NoReq == [op |-> "none"]
NoResp == [status |-> 0]
NoTrail == [uid |-> NoUser, phase |-> "none"]

\* ------------------------------------------------------- credential store

get_user(us, user_id) == IF user_id \in DOMAIN us THEN user_id ELSE NoUser

\* faulty variant: the lookup compares the name as given, without lowering it
get_user_by_username_cased(us, username) ==
    IF \E u \in DOMAIN us : us[u].username = username
    THEN CHOOSE u \in DOMAIN us : us[u].username = username
    ELSE NoUser

get_user_by_username(us, username) ==
    IF \E u \in DOMAIN us : us[u].username = Lower(username)
    THEN CHOOSE u \in DOMAIN us : us[u].username = Lower(username)
    ELSE NoUser

get_user_by_email(us, email) ==
    IF \E u \in DOMAIN us : us[u].email = Lower(email)
    THEN CHOOSE u \in DOMAIN us : us[u].email = Lower(email)
    ELSE NoUser

\* db.query(Role).filter(Role.id.in_(role_ids)).all()
roles_in(rs, role_ids) == {r \in role_ids : r \in DOMAIN rs}

\* db.query(Tool).filter(Tool.id.in_(tool_ids)).all()
tools_in(ts, tool_ids) == {t \in tool_ids : t \in DOMAIN ts}

get_tool(ts, tool_id) == IF tool_id \in DOMAIN ts THEN tool_id ELSE 0

\* get_password_hash: salted one-way hash, self-describing
get_password_hash(password) == <<"bcrypt", password>>

verify_password(password, password_hash) ==
    password_hash = <<"bcrypt", password>>

\* ----------------------------------------------------- permission resolver

\* faulty variant: role names compared without regard to case
has_role_nocase(user, role_name) ==
    \E r \in user.roles : r \in DOMAIN roles /\ Lower(roles[r]) = Lower(role_name)

\* any(role.name == role_name for role in user.roles)
has_role(user, role_name) ==
    \E r \in user.roles : r \in DOMAIN roles /\ roles[r] = role_name

has_tool_access(user, tool_name) ==
    IF has_role(user, "superuser")
    THEN TRUE
    ELSE \E t \in user.tools : t \in DOMAIN tools /\ tools[t].name = tool_name

\* faulty variant: a superuser gets every tool, active or not
get_user_tools_all(user) ==
    IF has_role(user, "superuser")
    THEN DOMAIN tools
    ELSE {t \in user.tools : t \in DOMAIN tools /\ tools[t].is_active}

\* faulty variant: a regular user gets the assigned tools, active or not
get_user_tools_assigned(user) ==
    IF has_role(user, "superuser")
    THEN {t \in DOMAIN tools : tools[t].is_active}
    ELSE {t \in user.tools : t \in DOMAIN tools}

get_user_tools(user) ==
    IF has_role(user, "superuser")
    THEN {t \in DOMAIN tools : tools[t].is_active}
    ELSE {t \in user.tools : t \in DOMAIN tools /\ tools[t].is_active}

\* ------------------------------------------------------------ user service

\* no call or request is being served
Idle == gs = "Idle" /\ req.op = "none" /\ resp.status = 0

\* a service call leaves the guard and the tokens alone
\* the rate limiter, the concurrent workers and the request's own session
SideFrame == UNCHANGED <<limiter, procs, db_session>>

ServiceFrame == UNCHANGED <<now, issued, gs, cur>> /\ SideFrame

\* any(role.name == "superuser" for role in db_user.roles), on a role set
has_superuser(role_set) == \E r \in role_set : roles[r] = "superuser"

create_user(user_data) ==
    /\ Idle
    /\ req' = [op |-> "create_user", d |-> user_data]
    /\ trail' = NoTrail
    /\ IF get_user_by_username(users, user_data.username) # NoUser
       THEN /\ resp' = [status |-> 400, detail |-> "Username already registered"]
            /\ UNCHANGED <<users, nextId>>
       ELSE IF get_user_by_email(users, user_data.email) # NoUser
       THEN /\ resp' = [status |-> 400, detail |-> "Email already registered"]
            /\ UNCHANGED <<users, nextId>>
       ELSE LET db_roles == IF user_data.role_ids # {}
                            THEN roles_in(roles, user_data.role_ids)
                            ELSE {}
                db_tools == IF ~has_superuser(db_roles) /\ user_data.tool_ids # {}
                            THEN tools_in(tools, user_data.tool_ids)
                            ELSE {}
                db_user == [username |-> Lower(user_data.username),
                            email |-> Lower(user_data.email),
                            password_hash |-> get_password_hash(user_data.password),
                            is_active |-> user_data.is_active,
                            roles |-> db_roles,
                            tools |-> db_tools]
            IN /\ users' = (nextId :> db_user) @@ users
               /\ nextId' = nextId + 1
               /\ resp' = [status |-> 200, uid |-> nextId]
    /\ UNCHANGED <<roles, tools>>
    /\ ServiceFrame

\* whether an update is the promotion, or the demotion after it, of a user
\* with explicit tools, with no tool_ids supplied
trail_after_update(user_id, user_data, old, new) ==
    IF IsSet(user_data.tool_ids) \/ ~IsSet(user_data.role_ids)
    THEN NoTrail
    ELSE IF ~has_role(old, "superuser") /\ has_superuser(new.roles) /\ old.tools # {}
    THEN [uid |-> user_id, phase |-> "promoted"]
    ELSE IF /\ trail = [uid |-> user_id, phase |-> "promoted"]
            /\ ~has_superuser(new.roles)
    THEN [uid |-> user_id, phase |-> "demoted"]
    ELSE NoTrail

update_user(user_id, user_data) ==
    /\ Idle
    /\ req' = [op |-> "update_user", uid |-> user_id, d |-> user_data]
    /\ IF get_user(users, user_id) = NoUser
       THEN /\ resp' = [status |-> 404, detail |-> "None"]
            /\ trail' = NoTrail
            /\ UNCHANGED users
       ELSE LET db_user == users[user_id]
                by_name == IF IsSet(user_data.username)
                           THEN get_user_by_username(users, Get(user_data.username))
                           ELSE NoUser
                by_email == IF IsSet(user_data.email)
                            THEN get_user_by_email(users, Get(user_data.email))
                            ELSE NoUser
            IN IF by_name # NoUser /\ by_name # user_id
               THEN /\ resp' = [status |-> 400, detail |-> "Username already taken"]
                    /\ trail' = NoTrail
                    /\ UNCHANGED users
               ELSE IF by_email # NoUser /\ by_email # user_id
               THEN /\ resp' = [status |-> 400, detail |-> "Email already taken"]
                    /\ trail' = NoTrail
                    /\ UNCHANGED users
               ELSE LET new_roles == IF IsSet(user_data.role_ids)
                                     THEN roles_in(roles, Get(user_data.role_ids))
                                     ELSE db_user.roles
                        new_tools == IF IsSet(user_data.tool_ids)
                                     THEN IF ~has_superuser(new_roles)
                                          THEN tools_in(tools, Get(user_data.tool_ids))
                                          ELSE {}
                                     ELSE db_user.tools
                        new_user == [username |-> IF IsSet(user_data.username)
                                                  THEN Lower(Get(user_data.username))
                                                  ELSE db_user.username,
                                     email |-> IF IsSet(user_data.email)
                                               THEN Lower(Get(user_data.email))
                                               ELSE db_user.email,
                                     password_hash |->
                                         IF IsSet(user_data.password)
                                         THEN get_password_hash(Get(user_data.password))
                                         ELSE db_user.password_hash,
                                     is_active |-> IF IsSet(user_data.is_active)
                                                   THEN Get(user_data.is_active)
                                                   ELSE db_user.is_active,
                                     roles |-> new_roles,
                                     tools |-> new_tools]
                    IN /\ users' = [users EXCEPT ![user_id] = new_user]
                       /\ resp' = [status |-> 200, uid |-> user_id]
                       /\ trail' = trail_after_update(user_id, user_data, db_user, new_user)
    /\ UNCHANGED <<nextId, roles, tools>>
    /\ ServiceFrame

delete_user(user_id) ==
    /\ Idle
    /\ req' = [op |-> "delete_user", uid |-> user_id]
    /\ trail' = NoTrail
    /\ IF get_user(users, user_id) = NoUser
       THEN /\ resp' = [status |-> 404, detail |-> "False"]
            /\ UNCHANGED users
       ELSE /\ users' = [u \in DOMAIN users \ {user_id} |-> users[u]]
            /\ resp' = [status |-> 200, uid |-> user_id]
    /\ UNCHANGED <<nextId, roles, tools>>
    /\ ServiceFrame

\* ToolService.update_tool with tool_data = {is_active}
update_tool(tool_id, is_active) ==
    /\ Idle
    /\ req' = [op |-> "update_tool", tid |-> tool_id]
    /\ trail' = NoTrail
    /\ IF get_tool(tools, tool_id) = 0
       THEN /\ resp' = [status |-> 404, detail |-> "None"]
            /\ UNCHANGED tools
       ELSE /\ tools' = [tools EXCEPT ![tool_id].is_active = is_active]
            /\ resp' = [status |-> 200, tid |-> tool_id]
    /\ UNCHANGED <<users, nextId, roles>>
    /\ ServiceFrame

\* RoleService.create_role; roles.name is a unique column
create_role(name) ==
    /\ Idle
    /\ NewRoleId \notin DOMAIN roles
    /\ req' = [op |-> "create_role", name |-> name]
    /\ trail' = NoTrail
    /\ IF \E r \in DOMAIN roles : roles[r] = name
       THEN /\ resp' = [status |-> 500, detail |-> "IntegrityError"]
            /\ UNCHANGED roles
       ELSE /\ roles' = (NewRoleId :> name) @@ roles
            /\ resp' = [status |-> 200, rid |-> NewRoleId]
    /\ UNCHANGED <<users, nextId, tools>>
    /\ ServiceFrame

\* a user_roles row holds the role's id in its role_id foreign key
role_referenced(role_id) == \E u \in DOMAIN users : role_id \in users[u].roles

\* a user_tools row holds the tool's id in its tool_id foreign key
tool_referenced(tool_id) == \E u \in DOMAIN users : tool_id \in users[u].tools

\* RoleService.delete_role: the Role mapping has no relationship to the
\* association table, so the row alone is deleted and the foreign key of
\* user_roles has the last word
delete_role(role_id) ==
    /\ Idle
    /\ req' = [op |-> "delete_role", rid |-> role_id]
    /\ trail' = NoTrail
    /\ IF role_id \notin DOMAIN roles
       THEN /\ resp' = [status |-> 404, detail |-> "False"]
            /\ UNCHANGED roles
       ELSE IF role_referenced(role_id)
       THEN /\ resp' = [status |-> 500, detail |-> "IntegrityError"]
            /\ UNCHANGED roles
       ELSE /\ roles' = [r \in DOMAIN roles \ {role_id} |-> roles[r]]
            /\ resp' = [status |-> 200, rid |-> role_id]
    /\ UNCHANGED <<users, nextId, tools>>
    /\ ServiceFrame

\* ToolService.delete_tool, likewise
delete_tool(tool_id) ==
    /\ Idle
    /\ req' = [op |-> "delete_tool", tid |-> tool_id]
    /\ trail' = NoTrail
    /\ IF get_tool(tools, tool_id) = 0
       THEN /\ resp' = [status |-> 404, detail |-> "False"]
            /\ UNCHANGED tools
       ELSE IF tool_referenced(tool_id)
       THEN /\ resp' = [status |-> 500, detail |-> "IntegrityError"]
            /\ UNCHANGED tools
       ELSE /\ tools' = [t \in DOMAIN tools \ {tool_id} |-> tools[t]]
            /\ resp' = [status |-> 200, tid |-> tool_id]
    /\ UNCHANGED <<users, nextId, roles>>
    /\ ServiceFrame

\* the response goes out and the call or request is over
Respond ==
    /\ req.op # "none"
    /\ resp.status # 0
    /\ req' = NoReq
    /\ resp' = NoResp
    /\ gs' = "Idle"
    /\ cur' = NoUser
    /\ db_session' = "none"
    /\ UNCHANGED <<users, nextId, roles, tools, now, issued, trail, limiter, procs>>

\* ------------------------------------------------------------- token codec

NoToken == [typ |-> "missing"]
Garbage == [typ |-> "garbage"]

create_access_token(username, uid) ==
    [typ |-> "access", sub |-> username, uid |-> uid,
     exp |-> now + ACCESS_TOKEN_EXPIRE_MINUTES]

create_refresh_token(username, uid) ==
    [typ |-> "refresh", sub |-> username, uid |-> uid,
     exp |-> now + REFRESH_TOKEN_EXPIRE_DAYS * 24 * 60]

\* uid records whom the token was issued to; no code reads it
create_tokens(username, uid) ==
    {create_access_token(username, uid), create_refresh_token(username, uid)}

\* the subject of a token that was signed for token_type and has not expired
verify_token(token, token_type) ==
    IF token \notin issued THEN NoSubject
    ELSE IF token.typ # token_type THEN NoSubject
    ELSE IF now > token.exp THEN NoSubject
    ELSE token.sub

\* ------------------------------------------------------------ auth service

\* faulty variant: a deactivated account with the right password is let in
authenticate_user_any(username, password) ==
    LET user == get_user_by_username(users, username)
    IN IF user = NoUser THEN NoUser
       ELSE IF ~verify_password(password, users[user].password_hash) THEN NoUser
       ELSE user

authenticate_user(username, password) ==
    LET user == get_user_by_username(users, username)
    IN IF user = NoUser THEN NoUser
       ELSE IF ~verify_password(password, users[user].password_hash) THEN NoUser
       ELSE IF ~users[user].is_active THEN NoUser
       ELSE user

\* the steps authenticate_user executes, in their order
authenticate_user_steps(username, password) ==
    LET user == get_user_by_username(users, username)
    IN IF user = NoUser THEN <<"query">>
       ELSE IF ~verify_password(password, users[user].password_hash)
       THEN <<"query", "verify_password">>
       ELSE <<"query", "verify_password", "is_active">>

\* faulty variant: the account's is_active flag is not looked at
get_user_from_token_any(token, token_type) ==
    LET username == verify_token(token, token_type)
    IN IF username = NoSubject THEN NoUser
       ELSE IF \E u \in DOMAIN users : users[u].username = username
            THEN CHOOSE u \in DOMAIN users : users[u].username = username
            ELSE NoUser

get_user_from_token(token, token_type) ==
    LET username == verify_token(token, token_type)
    IN IF username = NoSubject THEN NoUser
       ELSE IF \E u \in DOMAIN users : users[u].username = username
            THEN LET user == CHOOSE u \in DOMAIN users : users[u].username = username
                 IN IF ~users[user].is_active THEN NoUser ELSE user
            ELSE NoUser

\* the HTTPException every failed login raises
InvalidCredentials ==
    [status |-> 401, detail |-> "Incorrect username or password",
     headers |-> "WWW-Authenticate: Bearer"]

\* faulty variant: the user object is serialised with the UserInDB schema
UserInDB(user_id, user) ==
    [id |-> user_id, username |-> user.username, email |-> user.email,
     is_active |-> user.is_active, roles |-> user.roles, tools |-> user.tools,
     password_hash |-> user.password_hash]

\* UserSchema.model_validate(user): the fields the User response schema declares
UserSchema(user_id, user) ==
    [id |-> user_id, username |-> user.username, email |-> user.email,
     is_active |-> user.is_active, roles |-> user.roles, tools |-> user.tools]

\* the Token body of a successful login; uid and tools repeat user.id and
\* user.tools
Token(user_id, user) ==
    [status |-> 200, uid |-> user_id, tools |-> get_user_tools(user),
     access_token |-> create_access_token(user.username, user_id),
     refresh_token |-> create_refresh_token(user.username, user_id),
     token_type |-> "bearer",
     user |-> [UserSchema(user_id, user) EXCEPT !.tools = get_user_tools(user)]]

\* POST /api/auth/login
login(username, password) ==
    /\ Idle
    /\ Cardinality(issued) + 2 <= 2 * MaxSessions
    /\ req' = [op |-> "login", username |-> username, password |-> password]
    /\ LET user == authenticate_user(username, password)
       IN IF user = NoUser
          THEN /\ resp' = InvalidCredentials
               /\ UNCHANGED issued
          ELSE /\ issued' = issued \cup create_tokens(users[user].username, user)
               /\ resp' = Token(user, users[user])
    /\ UNCHANGED <<users, nextId, roles, tools, now, gs, cur, trail>>
    /\ SideFrame

\* faulty variant: the token is verified as whatever type it carries
verify_refresh_token_untyped(refresh_token) ==
    verify_token(refresh_token, refresh_token.typ)

\* faulty variant: the refresh token is verified as an access token
verify_refresh_token_access(refresh_token) == verify_token(refresh_token, "access")

verify_refresh_token(refresh_token) == verify_token(refresh_token, "refresh")

\* faulty variant: the account's is_active flag is not looked at
refresh_token_stale(refresh_data) ==
    /\ Idle
    /\ req' = [op |-> "refresh", tok |-> refresh_data]
    /\ LET username == verify_refresh_token(refresh_data)
           user == get_user_by_username(users, username)
       IN IF username = NoSubject
          THEN /\ resp' = [status |-> 401, detail |-> "Invalid refresh token",
                           headers |-> "WWW-Authenticate: Bearer"]
               /\ UNCHANGED issued
          ELSE IF user = NoUser
          THEN /\ resp' = [status |-> 401, detail |-> "User not found or inactive"]
               /\ UNCHANGED issued
          ELSE LET access_token == create_access_token(users[user].username, user)
               IN /\ Cardinality(issued \cup {access_token})
                        <= 2 * MaxSessions + MaxRefreshes
                  /\ issued' = issued \cup {access_token}
                  /\ resp' = [status |-> 200, access_token |-> access_token,
                              token_type |-> "bearer"]
    /\ UNCHANGED <<users, nextId, roles, tools, now, gs, cur, trail>>
    /\ SideFrame

\* POST /api/auth/refresh
refresh_token(refresh_data) ==
    /\ Idle
    /\ req' = [op |-> "refresh", tok |-> refresh_data]
    /\ LET username == verify_refresh_token(refresh_data)
           user == get_user_by_username(users, username)
       IN IF username = NoSubject
          THEN /\ resp' = [status |-> 401, detail |-> "Invalid refresh token",
                           headers |-> "WWW-Authenticate: Bearer"]
               /\ UNCHANGED issued
          ELSE IF user = NoUser \/ ~users[user].is_active
          THEN /\ resp' = [status |-> 401, detail |-> "User not found or inactive"]
               /\ UNCHANGED issued
          ELSE LET access_token == create_access_token(users[user].username, user)
               IN /\ Cardinality(issued \cup {access_token})
                        <= 2 * MaxSessions + MaxRefreshes
                  /\ issued' = issued \cup {access_token}
                  /\ resp' = [status |-> 200, access_token |-> access_token,
                              token_type |-> "bearer"]
    /\ UNCHANGED <<users, nextId, roles, tools, now, gs, cur, trail>>
    /\ SideFrame

\* ----------------------------------------------------------- user creation

\* UserCreate.validate_password
validate_password(v) == ~(Len(v) < 6)

\* a user is created from a request body: the UserCreate validators run, then
\* UserService.create_user
create_user_request(user_data) ==
    IF ~validate_password(user_data.password)
    THEN /\ Idle
         /\ req' = [op |-> "create_user", d |-> user_data]
         /\ resp' = [status |-> 422,
                     detail |-> "Password must be at least 6 characters long"]
         /\ UNCHANGED <<users, nextId, roles, tools, trail>>
         /\ ServiceFrame
    ELSE create_user(user_data)

\* ---------------------------------------------------------- password reset

\* the character classes of the regular expressions of the strength check
UPPERCASE ==
    {"A", "B", "C", "D", "E", "F", "G", "H", "I", "J", "K", "L", "M",
     "N", "O", "P", "Q", "R", "S", "T", "U", "V", "W", "X", "Y", "Z"}
LOWERCASE ==
    {"a", "b", "c", "d", "e", "f", "g", "h", "i", "j", "k", "l", "m",
     "n", "o", "p", "q", "r", "s", "t", "u", "v", "w", "x", "y", "z"}
DIGITS == {"0", "1", "2", "3", "4", "5", "6", "7", "8", "9"}
SPECIALS ==
    {"!", "@", "#", "$", "%", "^", "&", "*", "(", ")", ",", ".", "?", "\"",
     ":", "{", "}", "|", "<", ">"}

\* re.search(r"[class]", s) on a password given as its sequence of characters
re_search(class, s) == \E i \in 1..Len(s) : s[i] \in class

\* the strength checks of reset_user_password in their order; "" when all pass
strength_error(new_password) ==
    IF Len(new_password) < 8
    THEN "Password must be at least 8 characters long"
    ELSE IF ~re_search(UPPERCASE, new_password)
    THEN "Password must contain at least one uppercase letter"
    ELSE IF ~re_search(LOWERCASE, new_password)
    THEN "Password must contain at least one lowercase letter"
    ELSE IF ~re_search(DIGITS, new_password)
    THEN "Password must contain at least one number"
    ELSE IF ~re_search(SPECIALS, new_password)
    THEN "Password must contain at least one special character"
    ELSE ""

\* POST /api/auth/reset-password as app/main.py defines it
reset_user_password(username, current_password, new_password) ==
    /\ Idle
    /\ req' = [op |-> "reset_user_password", username |-> username,
               current_password |-> current_password,
               new_password |-> new_password]
    /\ LET user == get_user_by_username(users, username)
       IN IF user = NoUser
          THEN /\ resp' = [status |-> 401, detail |-> "Invalid username or password"]
               /\ db_session' = "open"
               /\ UNCHANGED users
          ELSE IF ~verify_password(current_password, users[user].password_hash)
          THEN /\ resp' = [status |-> 401, detail |-> "Invalid username or password"]
               /\ db_session' = "open"
               /\ UNCHANGED users
          ELSE IF strength_error(new_password) # ""
          THEN /\ resp' = [status |-> 400, detail |-> strength_error(new_password)]
               /\ db_session' = "open"
               /\ UNCHANGED users
          ELSE /\ users' = [users EXCEPT
                              ![user].password_hash = get_password_hash(new_password)]
               /\ db_session' = "closed"
               /\ resp' = [status |-> 200, message |-> "Password reset successfully"]
    /\ UNCHANGED <<nextId, roles, tools, trail>>
    /\ UNCHANGED <<now, issued, gs, cur, limiter, procs>>

\* GET /health of app/main.py; database_up is whether SELECT 1 succeeds
health_check(database_up) ==
    /\ Idle
    /\ req' = [op |-> "health_check"]
    /\ IF database_up
       THEN /\ resp' = [status |-> 200, database |-> "connected"]
            /\ db_session' = "closed"
       ELSE /\ resp' = [status |-> 503, database |-> "disconnected"]
            /\ db_session' = "open"
    /\ UNCHANGED <<users, nextId, roles, tools, now, issued, gs, cur, trail,
                   limiter, procs>>

\* AuthService.validate_password_strength
validate_password_strength(password) ==
    /\ Len(password) >= 8
    /\ re_search(UPPERCASE, password)
    /\ re_search(LOWERCASE, password)
    /\ re_search(DIGITS, password)
    /\ re_search(SPECIALS, password)

\* POST /api/auth/reset-password as the auth router defines it
reset_password(username, current_password, new_password) ==
    /\ Idle
    /\ req' = [op |-> "reset_password", username |-> username,
               current_password |-> current_password,
               new_password |-> new_password]
    /\ LET user == authenticate_user(username, current_password)
       IN IF user = NoUser
          THEN /\ resp' = [status |-> 401,
                           detail |-> "Invalid username or current password"]
               /\ UNCHANGED users
          ELSE IF ~validate_password_strength(new_password)
          THEN /\ resp' = [status |-> 400,
                           detail |-> "Password must be at least 8 characters long and contain at least one uppercase letter, one lowercase letter, one number, and one special character"]
               /\ UNCHANGED users
          ELSE /\ users' = [users EXCEPT
                              ![user].password_hash = get_password_hash(new_password)]
               /\ resp' = [status |-> 200, message |-> "Password successfully reset"]
    /\ UNCHANGED <<nextId, roles, tools, trail>>
    /\ ServiceFrame

\* the clock passes the lifetime of an access token
Tick ==
    /\ Idle
    /\ now < MaxTicks * (ACCESS_TOKEN_EXPIRE_MINUTES + 1)
    /\ now' = now + ACCESS_TOKEN_EXPIRE_MINUTES + 1
    /\ UNCHANGED <<users, nextId, roles, tools, issued, req, gs, cur, resp, trail>>
    /\ SideFrame

\* the minute before the expiry of an issued token, the expiry, the minute after
Instants == {tok.exp + d : tok \in issued, d \in {-1, 0, 1}}

\* the clock reaches instant t
Advance(t) ==
    /\ Idle
    /\ t > now
    /\ now' = t
    /\ UNCHANGED <<users, nextId, roles, tools, issued, req, gs, cur, resp, trail>>
    /\ SideFrame

\* ------------------------------------------------- concurrent service calls

\* each worker serves one call at a time on a database session of its own;
\* what it read stays in its session until its commit
Workers == {"w1", "w2"}
IdleWorker == [pc |-> "idle"]

\* no serial call is in progress and worker w is free
Free(w) == Idle /\ procs[w].pc = "idle"

\* the worker's call is over
finish(w) ==
    /\ procs[w].pc = "done"
    /\ procs' = [procs EXCEPT ![w] = IdleWorker]
    /\ UNCHANGED <<users, nextId, roles, tools, now, issued, req, gs, cur, resp,
                   trail, limiter, db_session>>

WorkerFrame ==
    UNCHANGED <<nextId, roles, tools, now, issued, req, gs, cur, resp, trail,
                limiter, db_session>>

\* UserService.update_user up to its commit: the row is loaded and the new
\* attribute values are set on the loaded object
update_user_begin(w, user_id, user_data) ==
    /\ Free(w)
    /\ IF get_user(users, user_id) = NoUser
       THEN procs' = [procs EXCEPT ![w] =
                [pc |-> "done", op |-> "update_user", uid |-> user_id,
                 status |-> 404]]
       ELSE LET db_user == users[user_id]
                by_name == IF IsSet(user_data.username)
                           THEN get_user_by_username(users, Get(user_data.username))
                           ELSE NoUser
                by_email == IF IsSet(user_data.email)
                            THEN get_user_by_email(users, Get(user_data.email))
                            ELSE NoUser
                new_roles == IF IsSet(user_data.role_ids)
                             THEN roles_in(roles, Get(user_data.role_ids))
                             ELSE db_user.roles
                new_tools == IF IsSet(user_data.tool_ids)
                             THEN IF ~has_superuser(new_roles)
                                  THEN tools_in(tools, Get(user_data.tool_ids))
                                  ELSE {}
                             ELSE db_user.tools
            IN IF (by_name # NoUser /\ by_name # user_id)
                     \/ (by_email # NoUser /\ by_email # user_id)
               THEN procs' = [procs EXCEPT ![w] =
                        [pc |-> "done", op |-> "update_user", uid |-> user_id,
                         status |-> 400]]
               ELSE procs' = [procs EXCEPT ![w] =
                        [pc |-> "commit", op |-> "update_user", uid |-> user_id,
                         d |-> user_data, db_user |-> db_user,
                         new_roles |-> new_roles, new_tools |-> new_tools]]
    /\ UNCHANGED users
    /\ WorkerFrame

\* the rows of an association table after the unit of work has flushed the
\* change of a loaded collection from old to new: the removed members' rows
\* are deleted, the added members' rows inserted
flushed(rows, old, new) == (rows \ (old \ new)) \cup (new \ old)

\* the flush fails: a row to delete is gone, or a row to insert is there
flush_conflict(rows, old, new) ==
    ~((old \ new) \subseteq rows) \/ (new \ old) \cap rows # {}

\* db.commit() of update_user: the changed columns and the changes of the
\* roles and tools collections are written in one transaction
update_user_commit(w) ==
    /\ procs[w].pc = "commit" /\ procs[w].op = "update_user"
    /\ LET p == procs[w]
           d == p.d
           gone == p.uid \notin DOMAIN users
           conflict ==
               \/ gone
               \/ IsSet(d.role_ids)
                     /\ flush_conflict(users[p.uid].roles, p.db_user.roles, p.new_roles)
               \/ IsSet(d.tool_ids)
                     /\ flush_conflict(users[p.uid].tools, p.db_user.tools, p.new_tools)
       IN IF conflict
          THEN /\ procs' = [procs EXCEPT ![w] =
                      [pc |-> "done", op |-> "update_user", uid |-> p.uid,
                       status |-> 500]]
               /\ UNCHANGED users
          ELSE LET row == users[p.uid]
                   new_row ==
                       [username |-> IF IsSet(d.username)
                                     THEN Lower(Get(d.username)) ELSE row.username,
                        email |-> IF IsSet(d.email)
                                  THEN Lower(Get(d.email)) ELSE row.email,
                        password_hash |->
                            IF IsSet(d.password)
                            THEN get_password_hash(Get(d.password))
                            ELSE row.password_hash,
                        is_active |-> IF IsSet(d.is_active)
                                      THEN Get(d.is_active) ELSE row.is_active,
                        roles |-> IF IsSet(d.role_ids)
                                  THEN flushed(row.roles, p.db_user.roles, p.new_roles)
                                  ELSE row.roles,
                        tools |-> IF IsSet(d.tool_ids)
                                  THEN flushed(row.tools, p.db_user.tools, p.new_tools)
                                  ELSE row.tools]
               IN /\ users' = [users EXCEPT ![p.uid] = new_row]
                  /\ procs' = [procs EXCEPT ![w] =
                         [pc |-> "done", op |-> "update_user", uid |-> p.uid,
                          status |-> 200]]
    /\ WorkerFrame

\* reset_user_password of app/main.py up to its commit: the row is loaded,
\* current_password is verified against the loaded hash, the new password
\* is checked and its hash set on the loaded object
reset_user_password_begin(w, username, current_password, new_password) ==
    /\ Free(w)
    /\ LET user == get_user_by_username(users, username)
           rejected(status, detail) ==
               [pc |-> "done", op |-> "reset_user_password", uid |-> user,
                status |-> status, detail |-> detail]
       IN procs' = [procs EXCEPT ![w] =
             IF user = NoUser
             THEN rejected(401, "Invalid username or password")
             ELSE IF ~verify_password(current_password, users[user].password_hash)
             THEN rejected(401, "Invalid username or password")
             ELSE IF strength_error(new_password) # ""
             THEN rejected(400, strength_error(new_password))
             ELSE [pc |-> "commit", op |-> "reset_user_password", uid |-> user,
                   seen |-> users[user].password_hash,
                   password_hash |-> get_password_hash(new_password)]]
    /\ UNCHANGED users
    /\ WorkerFrame

\* faulty variant: the column is written in two parts, and the second part of
\* the previous value is still there when the commit shows
reset_user_password_commit_torn(w) ==
    /\ procs[w].pc = "commit" /\ procs[w].op = "reset_user_password"
    /\ LET p == procs[w]
       IN /\ p.uid \in DOMAIN users
          /\ LET old == users[p.uid].password_hash[2]
                 new == p.password_hash[2]
             IN users' = [users EXCEPT ![p.uid].password_hash =
                    <<"bcrypt", SubSeq(new, 1, 4) \o SubSeq(old, 5, Len(old))>>]
          /\ procs' = [procs EXCEPT ![w] =
                 [pc |-> "done", op |-> "reset_user_password", uid |-> p.uid,
                  status |-> 200, password_hash |-> p.password_hash]]
    /\ WorkerFrame

\* db.commit() of reset_user_password: the hash set on the loaded object is
\* written to the row, whatever the row holds by now
reset_user_password_commit(w) ==
    /\ procs[w].pc = "commit" /\ procs[w].op = "reset_user_password"
    /\ LET p == procs[w]
       IN IF p.uid \notin DOMAIN users
          THEN /\ procs' = [procs EXCEPT ![w] =
                      [pc |-> "done", op |-> "reset_user_password", uid |-> p.uid,
                       status |-> 500, detail |-> "Failed to reset password"]]
               /\ UNCHANGED users
          ELSE /\ users' = [users EXCEPT ![p.uid].password_hash = p.password_hash]
               /\ procs' = [procs EXCEPT ![w] =
                      [pc |-> "done", op |-> "reset_user_password", uid |-> p.uid,
                       status |-> 200, password_hash |-> p.password_hash]]
    /\ WorkerFrame

\* UserService.create_user up to its commit: the existence checks are made
\* and the new object is built and added to the session
create_user_begin(w, user_data) ==
    /\ Free(w)
    /\ LET rejected(detail) ==
               [pc |-> "done", op |-> "create_user", status |-> 400,
                detail |-> detail]
           db_roles == IF user_data.role_ids # {}
                       THEN roles_in(roles, user_data.role_ids)
                       ELSE {}
           db_tools == IF ~has_superuser(db_roles) /\ user_data.tool_ids # {}
                       THEN tools_in(tools, user_data.tool_ids)
                       ELSE {}
           db_user == [username |-> Lower(user_data.username),
                       email |-> Lower(user_data.email),
                       password_hash |-> get_password_hash(user_data.password),
                       is_active |-> user_data.is_active,
                       roles |-> db_roles,
                       tools |-> db_tools]
       IN procs' = [procs EXCEPT ![w] =
             IF get_user_by_username(users, user_data.username) # NoUser
             THEN rejected("Username already registered")
             ELSE IF get_user_by_email(users, user_data.email) # NoUser
             THEN rejected("Email already registered")
             ELSE [pc |-> "commit", op |-> "create_user", db_user |-> db_user]]
    /\ UNCHANGED users
    /\ WorkerFrame

\* unique=True of User.username and User.email: the row cannot be inserted
unique_violation(db_user) ==
    \E u \in DOMAIN users :
       users[u].username = db_user.username \/ users[u].email = db_user.email

\* db.commit() of create_user: the row is inserted, or the database raises
\* IntegrityError, which nothing in create_user catches
create_user_commit(w) ==
    /\ procs[w].pc = "commit" /\ procs[w].op = "create_user"
    /\ IF unique_violation(procs[w].db_user)
       THEN /\ procs' = [procs EXCEPT ![w] =
                   [pc |-> "done", op |-> "create_user", status |-> 500,
                    detail |-> "IntegrityError"]]
            /\ UNCHANGED <<users, nextId>>
       ELSE /\ users' = (nextId :> procs[w].db_user) @@ users
            /\ nextId' = nextId + 1
            /\ procs' = [procs EXCEPT ![w] =
                   [pc |-> "done", op |-> "create_user", status |-> 200,
                    uid |-> nextId]]
    /\ UNCHANGED <<roles, tools, now, issued, req, gs, cur, resp, trail,
                   limiter, db_session>>

\* ------------------------------------------------------------- role rename

\* the id the roles sequence gives next
next_role_id(rs) == (CHOOSE i \in DOMAIN rs : \A j \in DOMAIN rs : j <= i) + 1

\* the seeding loop: each name of the list is inserted unless a role of
\* that name exists
RECURSIVE insert_missing(_, _)
insert_missing(rs, names) ==
    IF names = <<>> THEN rs
    ELSE LET name == Head(names)
             next == IF \E r \in DOMAIN rs : rs[r] = name
                     THEN rs
                     ELSE (next_role_id(rs) :> name) @@ rs
         IN insert_missing(next, Tail(names))

\* upgrade() of the seed migration 002: its roles
SeedDataRoles == <<"superuser", "user", "operator", "itra">>

\* create_roles of scripts/seed_comprehensive.py: its roles
ComprehensiveRoles == <<"superuser", "manager", "user", "operator", "itar">>

\* a seeding run over the given list of role names
seed_roles(script, names) ==
    /\ Idle
    /\ req' = [op |-> script]
    /\ trail' = NoTrail
    /\ roles' = insert_missing(roles, names)
    /\ resp' = [status |-> 200]
    /\ UNCHANGED <<users, nextId, tools>>
    /\ ServiceFrame

\* UPDATE roles SET name = new WHERE name = old, on a table whose name column
\* is unique: the rows after the statement
renamed(rs, old, new) == [r \in DOMAIN rs |-> IF rs[r] = old THEN new ELSE rs[r]]

\* the statement violates the unique constraint on roles.name
rename_violation(rs, old, new) ==
    (\E r \in DOMAIN rs : rs[r] = old) /\ (\E r \in DOMAIN rs : rs[r] = new)

\* the UPDATE of the rename, run by script or migration op
rename_role(script, old, new) ==
    /\ Idle
    /\ req' = [op |-> script]
    /\ trail' = NoTrail
    /\ IF rename_violation(roles, old, new)
       THEN /\ resp' = [status |-> 500, detail |-> "IntegrityError"]
            /\ UNCHANGED roles
       ELSE /\ roles' = renamed(roles, old, new)
            /\ resp' = [status |-> 200]
    /\ UNCHANGED <<users, nextId, tools>>
    /\ ServiceFrame

\* update_itra_to_itar.py: the UPDATE is run when a role named itra is found
update_itra_to_itar == rename_role("update_itra_to_itar", "itra", "itar")

\* upgrade() of the migration 003
upgrade == rename_role("upgrade", "itra", "itar")

\* downgrade() of the migration 003
downgrade == rename_role("downgrade", "itar", "itra")

\* ------------------------------------------------------------ rate limiting

Clients == {"10.0.0.1:ua"}

\* counted: requests the limiter has counted in the current window;
\* sent and throttled record, per client, the requests sent and whether one
\* of them was answered 429
NoTraffic ==
    [counted |-> [c \in Clients |-> 0], sent |-> [c \in Clients |-> 0],
     throttled |-> {}]

\* RateLimiter.is_allowed: the request fits into the window's allowance
is_allowed(identifier) == limiter.counted[identifier] < RATE_LIMIT_REQUESTS

\* the paths RateLimitMiddleware.dispatch passes on without counting
ExemptPaths == {"/health", "/metrics"}

\* RateLimitMiddleware.dispatch for a request of client identifier to path
dispatch(identifier, path) ==
    /\ Idle
    /\ limiter.sent[identifier] < MaxBurst
    /\ req' = [op |-> "dispatch", client |-> identifier, path |-> path]
    /\ IF path \in ExemptPaths
       THEN /\ resp' = [status |-> 200, path |-> path]
            /\ limiter' = [limiter EXCEPT !.sent[identifier] = @ + 1]
       ELSE IF ~is_allowed(identifier)
       THEN /\ resp' = [status |-> 429,
                        detail |-> "Rate limit exceeded. Please try again later."]
            /\ limiter' = [limiter EXCEPT !.sent[identifier] = @ + 1,
                                          !.throttled = @ \cup {identifier}]
       ELSE /\ resp' = [status |-> 200, path |-> path]
            /\ limiter' = [limiter EXCEPT !.sent[identifier] = @ + 1,
                                          !.counted[identifier] = @ + 1]
    /\ UNCHANGED <<users, nextId, roles, tools, now, issued, gs, cur, trail,
                   procs, db_session>>

\* ------------------------------------------------------------ access guard

AdminPaths == {"GET /admin/users", "GET /admin/roles", "GET /admin/tools"}
ToolPaths == {"GET /tools", "GET /tools/{tool_id}", "GET /tools/compare/access"}

\* what the endpoint's dependency requires of the resolved user
required_role(op) == IF op \in AdminPaths THEN "superuser" ELSE ""
required_tool(op) == IF op = "GET /tools/compare/access" THEN "compare_tool" ELSE ""

StoreFrame ==
    UNCHANGED <<users, nextId, roles, tools, now, issued, trail>> /\ SideFrame

\* a request to a guarded endpoint arrives
Receive(op, tok, tool_id) ==
    /\ Idle
    /\ req' = [op |-> op, tok |-> tok, tool_id |-> tool_id]
    /\ gs' = "Unauthenticated"
    /\ UNCHANGED <<cur, resp>>
    /\ StoreFrame

Reject(status, detail) ==
    /\ gs' = "Rejected"
    /\ resp' = [status |-> status, detail |-> detail]

\* steps 1 and 2: the bearer token is extracted and verified as an access token
GuardVerify ==
    /\ gs = "Unauthenticated"
    /\ IF req.tok = NoToken
       THEN Reject(401, "missing credentials")
       ELSE IF verify_token(req.tok, "access") = NoSubject
       THEN Reject(401, "invalid token")
       ELSE gs' = "TokenVerified" /\ UNCHANGED resp
    /\ UNCHANGED <<req, cur>>
    /\ StoreFrame

\* step 3: the subject is loaded and must be active
GuardResolve ==
    /\ gs = "TokenVerified"
    /\ LET user == get_user_from_token(req.tok, "access")
       IN IF user = NoUser
          THEN Reject(401, "inactive or unknown user") /\ UNCHANGED cur
          ELSE gs' = "UserResolved" /\ cur' = user /\ UNCHANGED resp
    /\ UNCHANGED req
    /\ StoreFrame

\* step 4: the endpoint's required role or tool
permitted(user, op) ==
    /\ required_role(op) # "" => has_role(user, required_role(op))
    /\ required_tool(op) # "" => has_tool_access(user, required_tool(op))

GuardAuthorize ==
    /\ gs = "UserResolved"
    /\ IF permitted(users[cur], req.op)
       THEN gs' = "Authorized" /\ UNCHANGED resp
       ELSE Reject(403, "insufficient permission")
    /\ UNCHANGED <<req, cur>>
    /\ StoreFrame

\* ---------------------------------------------------------------- handlers

\* faulty variant: the tool is returned without the membership check
get_tool_route_open(current_user, tool_id) ==
    LET tool == get_tool(tools, tool_id)
    IN IF tool = 0
       THEN [status |-> 404, detail |-> "Tool not found"]
       ELSE [status |-> 200, tool |-> tool]

\* GET /tools/{tool_id}
get_tool_route(current_user, tool_id) ==
    LET tool == get_tool(tools, tool_id)
    IN IF tool = 0
       THEN [status |-> 404, detail |-> "Tool not found"]
       ELSE IF tool \notin get_user_tools(current_user)
       THEN [status |-> 403, detail |-> "Access denied to this tool"]
       ELSE [status |-> 200, tool |-> tool]

\* GET /tools
get_user_tools_route(current_user) ==
    [status |-> 200, tools |-> get_user_tools(current_user)]

\* step 5: the handler runs with the resolved user
Handle ==
    /\ gs = "Authorized"
    /\ resp.status = 0
    /\ resp' = CASE req.op = "GET /tools" -> get_user_tools_route(users[cur])
                 [] req.op = "GET /tools/{tool_id}" ->
                        get_tool_route(users[cur], req.tool_id)
                 [] OTHER -> [status |-> 200, user |-> users[cur].username]
    /\ UNCHANGED <<req, gs, cur>>
    /\ StoreFrame

\* ------------------------------------------------------------ state shape

\* the tables: users with their user_roles and user_tools rows, roles, tools
TypeOK ==
    /\ nextId \in Nat \ {0}
    /\ DOMAIN users \subseteq 1..(nextId - 1)
    /\ \A u \in DOMAIN users :
          /\ users[u].is_active \in BOOLEAN
          /\ users[u].roles \subseteq DOMAIN roles
          /\ users[u].tools \subseteq DOMAIN tools
    /\ \A r, q \in DOMAIN roles : r # q => roles[r] # roles[q]
    /\ \A t \in DOMAIN tools : tools[t].is_active \in BOOLEAN
    /\ \A tok \in issued : tok.typ \in {"access", "refresh"}
    /\ gs \in {"Idle", "Unauthenticated", "TokenVerified", "UserResolved",
               "Authorized", "Rejected"}
    /\ cur # NoUser => cur \in DOMAIN users
    /\ \A c \in Clients : limiter.counted[c] <= limiter.sent[c]
    /\ \A w \in Workers : procs[w].pc \in {"idle", "commit", "done"}
    /\ db_session \in {"none", "open", "closed"}

\* ----------------------------------------------------------- specifications

Init ==
    /\ users = <<>>
    /\ nextId = 1
    /\ roles = SeedRoles
    /\ tools = SeedTools
    /\ now = 0
    /\ issued = {}
    /\ req = NoReq
    /\ gs = "Idle"
    /\ cur = NoUser
    /\ resp = NoResp
    /\ trail = NoTrail
    /\ limiter = NoTraffic
    /\ procs = [w \in Workers |-> IdleWorker]
    /\ db_session = "none"

Opt(S) == {None} \cup {Some(x) : x \in S}

Passwords == {"Pw1!aaaa", "Pw2!aaaa"}

\* inputs of the request specification: one account, its roles and tools
ReqRoleSets == {{1}, {3}, {2, 4}, {NewRoleId}}
ReqToolSets == {{}, {1}, {1, 2}}
ReqCreates ==
    [username : {"Alice"}, email : {"A@aci.com"}, password : {"Pw1!aaaa"},
     is_active : {TRUE}, role_ids : ReqRoleSets, tool_ids : ReqToolSets]
ReqUpdates ==
    [username : {None}, email : {None}, password : {None},
     is_active : Opt(BOOLEAN), role_ids : Opt(ReqRoleSets), tool_ids : Opt(ReqToolSets)]
ReqTokens == {NoToken, Garbage} \cup issued

Next ==
    \/ \E d \in ReqCreates : nextId <= MaxReqUsers /\ create_user(d)
    \/ \E u \in 1..MaxReqUsers, d \in ReqUpdates : update_user(u, d)
    \/ \E u \in 1..MaxReqUsers : delete_user(u)
    \/ \E t \in ToolIds, a \in BOOLEAN : update_tool(t, a)
    \/ \E n \in {"Superuser", "superuser"} : create_role(n)
    \/ \E n \in {"alice", "Alice", "bob"}, p \in Passwords : login(n, p)
    \/ Tick
    \/ \E op \in AdminPaths \cup (ToolPaths \ {"GET /tools/{tool_id}"}), tok \in ReqTokens :
          Receive(op, tok, 0)
    \/ \E tok \in ReqTokens, t \in ToolIds \cup {MissingToolId} :
          Receive("GET /tools/{tool_id}", tok, t)
    \/ GuardVerify
    \/ GuardResolve
    \/ GuardAuthorize
    \/ Handle
    \/ Respond

Spec == Init /\ [][Next]_vars

\* inputs of the store specification: two accounts, names that differ by case
Names == {"alice", "Alice", "bob"}
Emails == {"a@aci.com", "A@aci.com", "b@aci.com"}
StoreRoleSets == {{}, {1}, {3}}
StoreToolSets == {{}, {1}}
StoreCreates ==
    [username : Names, email : Emails, password : {"Pw1!aaaa"},
     is_active : {TRUE}, role_ids : StoreRoleSets, tool_ids : StoreToolSets]
StoreUpdates ==
    [username : Opt(Names), email : Opt(Emails), password : {None},
     is_active : {None}, role_ids : Opt(StoreRoleSets), tool_ids : Opt(StoreToolSets)]

NextStore ==
    \/ \E d \in StoreCreates : nextId <= MaxUsers /\ create_user(d)
    \/ \E u \in 1..MaxUsers, d \in StoreUpdates : update_user(u, d)
    \/ \E u \in 1..MaxUsers : delete_user(u)
    \/ Respond

SpecStore == Init /\ [][NextStore]_vars

\* inputs of the authentication specification: one account, passwords as
\* sequences of characters
PwA == <<"P", "w", "1", "!", "a", "a", "a", "a">>
PwB == <<"P", "w", "2", "!", "a", "a", "a", "a">>
AuthPasswords == {PwA, PwB}
NewPasswords ==
    {PwA, PwB,
     <<"P", "w", "1", "!">>,
     <<"p", "w", "1", "!", "a", "a", "a", "a">>,
     <<"P", "W", "1", "!", "A", "A", "A", "A">>,
     <<"P", "w", "!", "!", "a", "a", "a", "a">>,
     <<"P", "w", "1", "1", "a", "a", "a", "a">>,
     <<"1", "2", "3", "4", "5", "6", "7", "8">>,
     <<"p", "a", "s", "s", "w", "o", "r", "d">>}
AuthNames == {"Alice", "bob"}
AuthCreates ==
    [username : {"Alice"}, email : {"A@aci.com"}, password : {PwA},
     is_active : BOOLEAN, role_ids : {{3}}, tool_ids : {{1}}]
AuthUpdates ==
    [username : {None}, email : {None}, password : {None},
     is_active : {Some(TRUE), Some(FALSE)}, role_ids : {None}, tool_ids : {None}]

NextAuth ==
    \/ \E d \in AuthCreates : nextId <= MaxReqUsers /\ create_user(d)
    \/ \E u \in 1..MaxReqUsers, d \in AuthUpdates : update_user(u, d)
    \/ \E u \in 1..MaxReqUsers : delete_user(u)
    \/ \E n \in AuthNames, p \in AuthPasswords : login(n, p)
    \/ \E tok \in ReqTokens : refresh_token(tok)
    \/ \E n \in AuthNames, p \in AuthPasswords, q \in NewPasswords :
          reset_user_password(n, p, q)
    \/ \E n \in AuthNames, p \in AuthPasswords, q \in NewPasswords :
          reset_password(n, p, q)
    \/ Tick
    \/ \E tok \in ReqTokens : Receive("GET /tools", tok, 0)
    \/ \E tok \in ReqTokens, t \in ToolIds : Receive("GET /tools/{tool_id}", tok, t)
    \/ GuardVerify
    \/ GuardResolve
    \/ GuardAuthorize
    \/ Handle
    \/ Respond

SpecAuth == Init /\ [][NextAuth]_vars

\* the expiry specification: one session and one refresh, verified around
\* the expiry instants of their tokens
NextExpiry ==
    \/ \E d \in AuthCreates : nextId <= MaxReqUsers /\ create_user(d)
    \/ \E p \in AuthPasswords : login("Alice", p)
    \/ \E tok \in ReqTokens : refresh_token(tok)
    \/ \E t \in Instants \cup {1} : Advance(t)
    \/ \E tok \in ReqTokens : Receive("GET /tools", tok, 0)
    \/ GuardVerify
    \/ GuardResolve
    \/ GuardAuthorize
    \/ Handle
    \/ Respond

SpecExpiry == Init /\ [][NextExpiry]_vars

\* inputs of the association specification: one account, its role and tool
\* rows, and the deletion of users, roles and tools
AssocRoleSets == {{}, {1}, {3}}
AssocToolSets == {{}, {1}, {1, 2}}
AssocCreates ==
    [username : {"Alice"}, email : {"A@aci.com"}, password : {"Pw1!aaaa"},
     is_active : {TRUE}, role_ids : AssocRoleSets, tool_ids : AssocToolSets]
AssocUpdates ==
    [username : {None}, email : {None}, password : {None}, is_active : {None},
     role_ids : Opt(AssocRoleSets), tool_ids : Opt(AssocToolSets)]

NextAssoc ==
    \/ \E d \in AssocCreates : nextId <= MaxUsers /\ create_user(d)
    \/ \E u \in 1..MaxUsers, d \in AssocUpdates : update_user(u, d)
    \/ \E u \in 1..MaxUsers : delete_user(u)
    \/ \E r \in {1, 3} : delete_role(r)
    \/ \E t \in ToolIds : delete_tool(t)
    \/ Respond

SpecAssoc == Init /\ [][NextAssoc]_vars

\* inputs of the creation specification: the passwords a creation request
\* is tried with
CreatePasswords ==
    {PwA,
     <<"P", "w", "1", "!">>,
     <<"1", "2", "3", "4", "5", "6">>,
     <<"q", "w", "e", "r", "t", "y">>,
     <<"a", "b", "c", "1", "2", "3">>,
     <<"P", "a", "s", "s", "w", "o", "r", "d", "1">>,
     <<"1", "2", "3", "4", "5", "6", "7", "8">>,
     <<"a", "b", "c", "d", "e", "f", "g", "h">>,
     <<"p", "a", "s", "s", "w", "o", "r", "d">>}
CreateRequests ==
    [username : {"Alice", "bob"}, email : {"A@aci.com", "b@aci.com"},
     password : CreatePasswords, is_active : {TRUE}, role_ids : {{3}},
     tool_ids : {{}, {1}}]

NextCreate ==
    \/ \E d \in CreateRequests : nextId <= MaxUsers /\ create_user_request(d)
    \/ \E u \in 1..MaxUsers : delete_user(u)
    \/ Respond

SpecCreate == Init /\ [][NextCreate]_vars

\* the concurrent update specification: one account, two workers updating its
\* roles and tools, every role change supplying tool_ids
ConcCreates ==
    [username : {"Alice"}, email : {"A@aci.com"}, password : {"Pw1!aaaa"},
     is_active : {TRUE}, role_ids : {{3}}, tool_ids : {{}, {1}}]
ConcUpdates ==
    [username : {None}, email : {None}, password : {None}, is_active : {None},
     role_ids : {Some({1}), Some({3})}, tool_ids : {Some({}), Some({2})}]
    \cup
    [username : {None}, email : {None}, password : {None}, is_active : {None},
     role_ids : {None}, tool_ids : {Some({}), Some({1}), Some({2})}]

NextUpdate ==
    \/ \E d \in ConcCreates : nextId <= MaxReqUsers /\ create_user(d)
    \/ Respond
    \/ \E w \in Workers, u \in 1..MaxReqUsers, d \in ConcUpdates :
          update_user_begin(w, u, d)
    \/ \E w \in Workers : update_user_commit(w)
    \/ \E w \in Workers : finish(w)

SpecUpdate == Init /\ [][NextUpdate]_vars

\* the concurrent reset specification: one account, two workers resetting its
\* password
PwC == <<"Q", "w", "3", "?", "b", "b", "b", "B">>
PwWeak == <<"p", "w", "1", "!", "a", "a", "a", "a">>
ResetCreates ==
    [username : {"Alice"}, email : {"A@aci.com"}, password : {PwA},
     is_active : {TRUE}, role_ids : {{3}}, tool_ids : {{1}}]
ResetCurrent == {PwA, PwB, PwC}
ResetNew == {PwB, PwC, PwWeak}

NextReset ==
    \/ \E d \in ResetCreates : nextId <= MaxReqUsers /\ create_user(d)
    \/ Respond
    \/ \E w \in Workers, c \in ResetCurrent, n \in ResetNew :
          reset_user_password_begin(w, "alice", c, n)
    \/ \E w \in Workers : reset_user_password_commit(w)
    \/ \E w \in Workers : finish(w)

SpecReset == Init /\ [][NextReset]_vars

\* the identity specification: two accounts are created, renamed and deleted
\* while tokens issued at login are outstanding
IdNames == {"alice", "bob"}
IdCreates ==
    [username : IdNames, email : {"a@aci.com", "b@aci.com"}, password : {"Pw1!aaaa"},
     is_active : {TRUE}, role_ids : {{3}}, tool_ids : {{}}]
IdUpdates ==
    [username : {Some(n) : n \in IdNames}, email : {None}, password : {None},
     is_active : {None}, role_ids : {None}, tool_ids : {None}]

NextIdentity ==
    \/ \E d \in IdCreates : nextId <= MaxUsers /\ create_user(d)
    \/ \E u \in 1..MaxUsers, d \in IdUpdates : update_user(u, d)
    \/ \E u \in 1..MaxUsers : delete_user(u)
    \/ \E n \in IdNames : login(n, "Pw1!aaaa")
    \/ Respond

SpecIdentity == Init /\ [][NextIdentity]_vars

\* the concurrent creation specification: two workers create accounts whose
\* names and addresses may be equal after lowercasing
RaceCreates ==
    [username : {"Alice", "alice", "bob"}, email : {"A@aci.com", "a@aci.com", "b@aci.com"},
     password : {"Pw1!aaaa"}, is_active : {TRUE}, role_ids : {{3}},
     tool_ids : {{}}]

NextRace ==
    \/ \E w \in Workers, d \in RaceCreates : create_user_begin(w, d)
    \/ \E w \in Workers : create_user_commit(w)
    \/ \E w \in Workers : finish(w)

SpecRace == Init /\ [][NextRace]_vars

\* the rename specification: the seeding runs, accounts holding the seeded
\* roles, and the rename in both directions
RenameCreates ==
    [username : {"Alice", "bob"}, email : {"A@aci.com", "b@aci.com"},
     password : {"Pw1!aaaa"}, is_active : {TRUE},
     role_ids : {{3}, {5}, {3, 5}, {6}}, tool_ids : {{}}]

NextRename ==
    \/ seed_roles("seed_data", SeedDataRoles)
    \/ seed_roles("create_roles", ComprehensiveRoles)
    \/ \E d \in RenameCreates : nextId <= MaxUsers /\ create_user(d)
    \/ update_itra_to_itar
    \/ upgrade
    \/ downgrade
    \/ Respond

SpecRename == Init /\ [][NextRename]_vars

\* the session specification: the two handlers of app/main.py that open a
\* database session themselves
NextSession ==
    \/ \E d \in AuthCreates : nextId <= MaxReqUsers /\ create_user(d)
    \/ \E n \in AuthNames, p \in AuthPasswords, q \in NewPasswords :
          reset_user_password(n, p, q)
    \/ \E database_up \in BOOLEAN : health_check(database_up)
    \/ Respond

SpecSession == Init /\ [][NextSession]_vars

\* the traffic specification: one client sends a burst of requests
BurstPaths == {"/health", "/api/auth/login"}

NextRate ==
    \/ \E c \in Clients, path \in BurstPaths : dispatch(c, path)
    \/ Respond

SpecRate == Init /\ [][NextRate]_vars

\* ------------------------------------------------------------------ claims

ActiveTools == {t \in DOMAIN tools : tools[t].is_active}
RoleNames(user) == {roles[r] : r \in user.roles \cap DOMAIN roles}
IsSuperuser(user) == "superuser" \in RoleNames(user)
Guarded == req.op \in AdminPaths \cup ToolPaths
\* the response to a guarded request is out and the guard had resolved a user
Served == Guarded /\ resp.status # 0 /\ cur # NoUser

\* C1: for every user holding a role named 'superuser', get_user_tools, the
\* body of GET /tools and the tools of the login response are exactly the
\* tools with is_active = true, whatever the user's explicit tools are.
C1_SuperuserGetsActiveTools ==
    /\ \A u \in DOMAIN users :
          IsSuperuser(users[u]) => get_user_tools(users[u]) = ActiveTools
    /\ (Served /\ req.op = "GET /tools" /\ resp.status = 200 /\ IsSuperuser(users[cur]))
          => resp.tools = ActiveTools
    /\ (req.op = "login" /\ resp.status = 200 /\ IsSuperuser(users[resp.uid]))
          => resp.tools = ActiveTools

\* a superuser with no explicit tools is served GET /tools while one tool is
\* inactive and one is active
C1_Witness ==
    /\ Served /\ req.op = "GET /tools" /\ resp.status = 200
    /\ IsSuperuser(users[cur])
    /\ users[cur].tools = {}
    /\ resp.tools # {}
    /\ ActiveTools # DOMAIN tools

\* C2: no stored user holds the role 'superuser' together with explicit tool
\* associations, whether or not the call that added the role supplied tool_ids.
C2_NoSuperuserWithTools ==
    \A u \in DOMAIN users : IsSuperuser(users[u]) => users[u].tools = {}

\* C3: after a promotion to superuser and a demotion, neither supplying
\* tool_ids, of a user that had explicit tools, get_user_tools is empty.
C3_DemotedHasNoTools ==
    trail.phase = "demoted" => get_user_tools(users[trail.uid]) = {}

C5_ToolAccessIffActive ==
    /\ \A u \in DOMAIN users, t \in DOMAIN tools :
          has_tool_access(users[u], tools[t].name)
             <=> (IsSuperuser(users[u]) \/ t \in users[u].tools \cap ActiveTools)
    /\ (Served /\ req.op = "GET /tools/compare/access")
          => (resp.status = 200
                 <=> (\/ IsSuperuser(users[cur])
                      \/ \E t \in users[cur].tools \cap ActiveTools :
                            tools[t].name = "compare_tool"))

\* C6: stored usernames and emails are lowercase and pairwise distinct.
C6_LowercaseUnique ==
    /\ \A u \in DOMAIN users : IsLower(users[u].username) /\ IsLower(users[u].email)
    /\ \A u, v \in DOMAIN users :
          u # v => /\ users[u].username # users[v].username
                   /\ users[u].email # users[v].email

\* a create_user whose username or email equals, after lowering, that of a stored user
Collides(d) ==
    \E u \in DOMAIN users :
       \/ users[u].username = Lower(d.username)
       \/ users[u].email = Lower(d.email)

\* an update_user that names a username or email another user holds
Takes(user_id, d) ==
    \E u \in DOMAIN users \ {user_id} :
       \/ IsSet(d.username) /\ users[u].username = Lower(Get(d.username))
       \/ IsSet(d.email) /\ users[u].email = Lower(Get(d.email))

\* a colliding create_user, and an update_user taking another user's name or
\* email, answers 400 and leaves the users as they were
C6_ConflictStep ==
    /\ (req.op = "none" /\ req'.op = "create_user" /\ Collides(req'.d))
          => (resp'.status = 400 /\ users' = users)
    /\ (req.op = "none" /\ req'.op = "update_user" /\ req'.uid \in DOMAIN users
            /\ Takes(req'.uid, req'.d))
          => (resp'.status = 400 /\ users' = users)

\* C6: after any sequence of create_user and update_user calls every stored
\* username and email is lowercase and unique, and a colliding create or
\* update fails with 400 and creates or changes no user.
C6_UniqueAndConflict == []C6_LowercaseUnique /\ [][C6_ConflictStep]_vars

\* a create_user as "Alice" is refused while "alice" is stored
C6_Witness ==
    /\ req.op = "create_user" /\ resp.status = 400
    /\ req.d.username = "Alice"
    /\ \E u \in DOMAIN users : users[u].username = "alice"
    /\ \A u \in DOMAIN users : users[u].email # Lower(req.d.email)

\* the account a token names, in the store as it is now
Account(tok) ==
    IF \E u \in DOMAIN users : users[u].username = tok.sub
    THEN CHOOSE u \in DOMAIN users : users[u].username = tok.sub
    ELSE NoUser

\* C7: a request carrying a token issued before an account was deactivated or
\* lost a role or tool is decided on the store as it is now: no user is
\* resolved for a deactivated account, and the tools and roles served are the
\* current ones.
C7_DecidedOnCurrentStore ==
    /\ \A tok \in issued :
          (Account(tok) = NoUser \/ ~users[Account(tok)].is_active)
             => get_user_from_token(tok, tok.typ) = NoUser
    /\ (Guarded /\ resp.status # 0 /\ req.tok \in issued)
          => /\ (Account(req.tok) = NoUser \/ ~users[Account(req.tok)].is_active)
                   => (resp.status = 401 /\ cur = NoUser)
             /\ cur # NoUser => cur = Account(req.tok)
             /\ (req.op = "GET /tools" /\ resp.status = 200)
                   => resp.tools =
                         IF IsSuperuser(users[cur]) THEN ActiveTools
                         ELSE users[cur].tools \cap ActiveTools
             /\ (req.op \in AdminPaths /\ resp.status = 200)
                   => IsSuperuser(users[cur])

\* an unexpired access token of an account that is now inactive is refused
C7_Witness ==
    /\ Guarded /\ resp.status = 401
    /\ req.tok \in issued /\ req.tok.typ = "access" /\ now <= req.tok.exp
    /\ Account(req.tok) = req.tok.uid
    /\ ~users[Account(req.tok)].is_active

\* the token verifies as an access token and names an existing active account
TokenGood ==
    /\ req.tok \in issued /\ req.tok.typ = "access" /\ now <= req.tok.exp
    /\ Account(req.tok) # NoUser
    /\ users[Account(req.tok)].is_active

\* what the endpoint asks of the user, from the store
Entitled(user, op) ==
    /\ op \in AdminPaths => IsSuperuser(user)
    /\ op = "GET /tools/compare/access" =>
          has_tool_access(user, "compare_tool")

\* the guard's state says how far the checks got
C8_GuardStates ==
    Guarded =>
       /\ gs \in {"TokenVerified", "UserResolved", "Authorized"}
             => (req.tok \in issued /\ req.tok.typ = "access" /\ now <= req.tok.exp)
       /\ gs \in {"UserResolved", "Authorized"}
             => (TokenGood /\ cur = Account(req.tok))
       /\ gs = "Authorized" => Entitled(users[cur], req.op)
       /\ (resp.status # 0 /\ gs # "Rejected") => gs = "Authorized"
       /\ (resp.status # 0 /\ ~TokenGood) => (gs = "Rejected" /\ resp.status = 401)
       /\ resp.status = 403
             => (TokenGood /\ cur = Account(req.tok)
                   /\ \/ ~Entitled(users[cur], req.op)
                      \/ (req.op = "GET /tools/{tool_id}"
                             /\ req.tool_id \notin get_user_tools(users[cur])))

\* the guard moves forward only, one state at a time, or exits to Rejected
C8_Forward ==
    gs' # gs =>
       \/ gs = "Idle" /\ gs' = "Unauthenticated"
       \/ gs = "Unauthenticated" /\ gs' \in {"TokenVerified", "Rejected"}
       \/ gs = "TokenVerified" /\ gs' \in {"UserResolved", "Rejected"}
       \/ gs = "UserResolved" /\ gs' \in {"Authorized", "Rejected"}
       \/ gs \in {"Authorized", "Rejected"} /\ gs' = "Idle"

\* C8: the Access Guard moves only forward through Unauthenticated,
\* TokenVerified, UserResolved, Authorized; a handler runs only after all
\* three checks held; a bad token or an unknown or inactive subject gets 401
\* whatever the permission check would say, and 403 goes only to a resolved
\* active user lacking the role or tool.
C8_GuardOrder == []C8_GuardStates /\ [][C8_Forward]_vars

\* the access token of an inactive account without the superuser role is
\* refused with 401 at an admin endpoint
C8_Witness ==
    /\ req.op \in AdminPaths /\ gs = "Rejected" /\ resp.status = 401
    /\ req.tok \in issued /\ req.tok.typ = "access" /\ now <= req.tok.exp
    /\ Account(req.tok) # NoUser
    /\ ~users[Account(req.tok)].is_active
    /\ ~IsSuperuser(users[Account(req.tok)])

\* C9: an authenticated active user is granted an admin endpoint iff one of
\* its roles is named exactly 'superuser'; every other user gets 403.
C9_AdminIffSuperuser ==
    (Served /\ req.op \in AdminPaths)
       => /\ resp.status = 200 <=> "superuser" \in RoleNames(users[cur])
          /\ resp.status = 403 <=> "superuser" \notin RoleNames(users[cur])

\* a user whose only role is named 'Superuser' is refused an admin endpoint
C9_Witness ==
    /\ Served /\ req.op \in AdminPaths /\ resp.status = 403
    /\ RoleNames(users[cur]) = {"Superuser"}

\* C10: GET /tools/{tool_id} returns the tool iff a tool with that id exists
\* and is among get_user_tools(current_user); an existing tool outside that
\* set gives 403 and an id no tool has gives 404.
C10_GetTool ==
    (Served /\ req.op = "GET /tools/{tool_id}")
       => LET mine == IF IsSuperuser(users[cur]) THEN ActiveTools
                      ELSE users[cur].tools \cap ActiveTools
          IN /\ resp.status = 200
                   <=> (req.tool_id \in DOMAIN tools /\ req.tool_id \in mine)
             /\ resp.status = 200 => resp.tool = req.tool_id
             /\ resp.status = 403
                   <=> (req.tool_id \in DOMAIN tools /\ req.tool_id \notin mine)
             /\ resp.status = 404 <=> req.tool_id \notin DOMAIN tools

\* a regular user asks for an existing, active tool that is not assigned
C10_Witness ==
    /\ Served /\ req.op = "GET /tools/{tool_id}" /\ resp.status = 403
    /\ ~IsSuperuser(users[cur])
    /\ users[cur].tools # {}
    /\ req.tool_id \in ActiveTools \ users[cur].tools

\* the account a submitted username names, NoUser if there is none
Named(username) ==
    IF \E u \in DOMAIN users : users[u].username = Lower(username)
    THEN CHOOSE u \in DOMAIN users : users[u].username = Lower(username)
    ELSE NoUser

\* the submitted credentials are those of an existing, active account
GoodCredentials(username, password) ==
    /\ Named(username) # NoUser
    /\ users[Named(username)].password_hash = get_password_hash(password)
    /\ users[Named(username)].is_active

C11_Step ==
    (req.op = "none" /\ req'.op = "login"
        /\ ~GoodCredentials(req'.username, req'.password))
       => (resp' = InvalidCredentials /\ issued' = issued)

\* C11: a login with an unknown username, with a wrong password or with the
\* right password of an inactive account gets one and the same response
\* (401, the same detail and headers) and issues no token.
C11_CredentialErrorCollapse == [][C11_Step]_vars

\* the right password of a deactivated account was refused with that response
C11_Witness ==
    /\ req.op = "login" /\ resp = InvalidCredentials
    /\ Named(req.username) # NoUser
    /\ users[Named(req.username)].password_hash = get_password_hash(req.password)
    /\ ~users[Named(req.username)].is_active

ResetOps == {"reset_user_password", "reset_password"}

C12_Step ==
    (req.op = "none" /\ req'.op \in ResetOps)
       => /\ users' # users
                => GoodCredentials(req'.username, req'.current_password)
          /\ ~GoodCredentials(req'.username, req'.current_password)
                => (resp'.status = 401 /\ users' = users)

\* C12: POST /api/auth/reset-password changes a password_hash only if the
\* named user exists, is active and current_password matches the stored
\* hash; otherwise the answer is 401 and the hash is unchanged, whatever
\* new_password is.
C12_ResetNeedsCredential == [][C12_Step]_vars

\* the token was signed as a token_type token and its expiry has not passed
ValidAs(tok, token_type) ==
    tok \in issued /\ tok.typ = token_type /\ now <= tok.exp

\* the token's subject names an account that exists and is active
SubjectActive(tok) ==
    \E u \in DOMAIN users : users[u].username = tok.sub /\ users[u].is_active

C13_Step ==
    (req.op = "none" /\ req'.op = "refresh")
       => LET tok == req'.tok
              good == ValidAs(tok, "refresh") /\ SubjectActive(tok)
          IN /\ issued' # issued => good
             /\ resp'.status = 200
                   => /\ good
                      /\ resp'.access_token \in issued'
                      /\ resp'.access_token.typ = "access"
                      /\ resp'.access_token.sub = tok.sub
             /\ ~good => (resp'.status = 401 /\ issued' = issued)

\* C13: POST /auth/refresh issues an access token only if the refresh token
\* verifies as type refresh and the user its subject names exists and is
\* active now; a refresh token of a user deleted or deactivated since is
\* refused with 401 and nothing is issued.
C13_RefreshRechecksUser == [][C13_Step]_vars

\* an unexpired refresh token of an account deactivated since was refused
C13_Witness ==
    /\ req.op = "refresh" /\ resp.status = 401
    /\ ValidAs(req.tok, "refresh")
    /\ \E u \in DOMAIN users : users[u].username = req.tok.sub /\ ~users[u].is_active

\* no token passes verification for the other type, in the service calls
C14_Verify ==
    \A tok \in issued :
       /\ tok.typ = "refresh" => get_user_from_token(tok, "access") = NoUser
       /\ tok.typ = "access" => verify_refresh_token(tok) = NoSubject

\* a refresh token never resolves a user in the guard; an access token gets
\* 401 from the refresh endpoint
C14_Requests ==
    /\ (Guarded /\ req.tok \in issued /\ req.tok.typ = "refresh")
          => /\ gs \in {"Unauthenticated", "Rejected"}
             /\ cur = NoUser
             /\ resp.status \in {0, 401}
    /\ (req.op = "refresh" /\ req.tok \in issued /\ req.tok.typ = "access")
          => resp.status = 401

C14_Step ==
    (req.op = "none" /\ req'.op = "refresh" /\ req'.tok \in issued
        /\ req'.tok.typ = "access")
       => issued' = issued

\* C14: token types are isolated: a token issued as a refresh token is
\* rejected when verified as an access token and never resolves a user in
\* the Access Guard; a token issued as an access token is rejected by
\* /auth/refresh and yields no new access token.
C14_TypeIsolation == [](C14_Verify /\ C14_Requests) /\ [][C14_Step]_vars

\* the unexpired refresh token of an active user was refused by the guard
C14_Witness ==
    /\ Guarded /\ gs = "Rejected" /\ resp.status = 401
    /\ ValidAs(req.tok, "refresh") /\ SubjectActive(req.tok)

\* the unexpired access token of an active user was refused by /auth/refresh
C14_AccessAtRefresh ==
    /\ req.op = "refresh" /\ resp.status = 401
    /\ ValidAs(req.tok, "access") /\ SubjectActive(req.tok)

\* verification of an issued token for its own type fails exactly when the
\* clock is strictly past the token's expiry
C15_Verify ==
    \A tok \in issued :
       /\ now > tok.exp => verify_token(tok, tok.typ) = NoSubject
       /\ now <= tok.exp => verify_token(tok, tok.typ) = tok.sub

\* the endpoints refuse a token for expiry exactly then
C15_Requests ==
    /\ (Guarded /\ gs # "Unauthenticated" /\ req.tok \in issued
           /\ req.tok.typ = "access")
          => ((gs = "Rejected" /\ resp.detail = "invalid token")
                 <=> now > req.tok.exp)
    /\ (req.op = "refresh" /\ req.tok \in issued /\ req.tok.typ = "refresh")
          => ((resp.status = 401 /\ resp.detail = "Invalid refresh token")
                 <=> now > req.tok.exp)

\* a token expires 30 minutes (access) or 7 days (refresh) after its issue
C15_Step ==
    \A tok \in issued' \ issued :
       tok.exp = now + (IF tok.typ = "access" THEN 30 ELSE 7 * 24 * 60)

\* C15: verifying a token fails for expiry iff the verification time is
\* strictly after the token's expiry; at the expiry instant itself the token
\* is accepted.  The expiry is the issue time plus 30 minutes for an access
\* token and plus 7 days for a refresh token.
C15_ExpiryBoundary == [](C15_Verify /\ C15_Requests) /\ [][C15_Step]_vars

\* an access token presented at exactly its expiry instant got through the
\* guard and the request was served
C15_Witness ==
    /\ Guarded /\ resp.status = 200
    /\ req.tok \in issued /\ now = req.tok.exp

\* a refresh token presented at exactly its expiry instant was accepted
C15_RefreshAtExpiry ==
    /\ req.op = "refresh" /\ resp.status = 200
    /\ req.tok \in issued /\ now = req.tok.exp

\* an access token presented the minute after its expiry was refused
C15_AccessPastExpiry ==
    /\ Guarded /\ resp.status = 401
    /\ req.tok \in issued /\ req.tok.typ = "access" /\ now = req.tok.exp + 1

\* an expired access token is refused with 401; an unexpired one of an
\* active user is not refused by the guard of GET /tools
C16_Guard ==
    (Guarded /\ resp.status # 0 /\ req.tok \in issued /\ req.tok.typ = "access")
       => /\ now > req.tok.exp => resp.status = 401
          /\ (now <= req.tok.exp /\ SubjectActive(req.tok) /\ req.op = "GET /tools")
                => resp.status = 200

\* a refresh with an unexpired refresh token of an active user answers 200
\* with an access token for the same username that is valid from then on
C16_Step ==
    (req.op = "none" /\ req'.op = "refresh"
        /\ ValidAs(req'.tok, "refresh") /\ SubjectActive(req'.tok))
       => /\ resp'.status = 200
          /\ resp'.access_token \in issued'
          /\ resp'.access_token.typ = "access"
          /\ resp'.access_token.sub = req'.tok.sub
          /\ now' <= resp'.access_token.exp

\* C16: an active user's client holding an unexpired refresh token recovers
\* from access-token expiry: the expired access token gets 401, /auth/refresh
\* then returns 200 with a new access token for the same username, and that
\* token is accepted by an authenticated endpoint.
C16_RefreshRecovers == []C16_Guard /\ [][C16_Step]_vars

\* an authenticated request was served on an access token that outlives an
\* expired access token of the same user, i.e. one obtained by a refresh
C16_Witness ==
    /\ req.op = "GET /tools" /\ resp.status = 200
    /\ req.tok \in issued
    /\ \E old \in issued :
          /\ old.typ = "access" /\ old.sub = req.tok.sub
          /\ now > old.exp /\ old.exp < req.tok.exp
    /\ \E rt \in issued : ValidAs(rt, "refresh") /\ rt.sub = req.tok.sub

\* the checks of the password policy in the order they are reported
Checks == <<"length", "uppercase", "lowercase", "digit", "special">>

Fails(check, password) ==
    CASE check = "length" -> Len(password) < 8
      [] check = "uppercase" -> \A i \in 1..Len(password) : password[i] \notin UPPERCASE
      [] check = "lowercase" -> \A i \in 1..Len(password) : password[i] \notin LOWERCASE
      [] check = "digit" -> \A i \in 1..Len(password) : password[i] \notin DIGITS
      [] check = "special" -> \A i \in 1..Len(password) : password[i] \notin SPECIALS

\* the first check the password fails, "none" if it passes them all
FirstFailing(password) ==
    IF \E i \in 1..Len(Checks) : Fails(Checks[i], password)
    THEN Checks[CHOOSE i \in 1..Len(Checks) :
                   /\ Fails(Checks[i], password)
                   /\ \A j \in 1..(i - 1) : ~Fails(Checks[j], password)]
    ELSE "none"

\* the check an error message names
Reported(detail) ==
    CASE detail = "Password must be at least 8 characters long" -> "length"
      [] detail = "Password must contain at least one uppercase letter" -> "uppercase"
      [] detail = "Password must contain at least one lowercase letter" -> "lowercase"
      [] detail = "Password must contain at least one number" -> "digit"
      [] detail = "Password must contain at least one special character" -> "special"
      [] OTHER -> "none"

C17_Step ==
    (req.op = "none" /\ req'.op \in ResetOps
        /\ GoodCredentials(req'.username, req'.current_password)
        /\ FirstFailing(req'.new_password) # "none")
       => /\ resp'.status = 400
          /\ Reported(resp'.detail) = FirstFailing(req'.new_password)
          /\ users' = users

\* C17: with a valid current credential, reset-password answers 400 to a
\* new_password that is shorter than 8 characters or lacks an uppercase
\* letter, a lowercase letter, a digit or a special character; the error
\* names the first failing check in the order length, uppercase, lowercase,
\* digit, special, and the password_hash stays as it was.
C17_PolicyFirstFailure == [][C17_Step]_vars

\* the same for the endpoint of app/main.py alone
C17_MainStep == req'.op = "reset_user_password" => C17_Step
C17_MainFirstFailure == [][C17_MainStep]_vars

\* every association row refers to a role or tool that exists (the rows of a
\* user are part of its entry in users)
C18_NoOrphans ==
    \A u \in DOMAIN users :
       /\ users[u].roles \subseteq DOMAIN roles
       /\ users[u].tools \subseteq DOMAIN tools

\* deleting an existing user, role or tool succeeds and leaves no row of it
C18_Step ==
    /\ (req.op = "none" /\ req'.op = "delete_user" /\ req'.uid \in DOMAIN users)
          => (resp'.status = 200 /\ req'.uid \notin DOMAIN users')
    /\ (req.op = "none" /\ req'.op = "delete_role" /\ req'.rid \in DOMAIN roles)
          => /\ resp'.status = 200
             /\ req'.rid \notin DOMAIN roles'
             /\ \A u \in DOMAIN users' : req'.rid \notin users'[u].roles
    /\ (req.op = "none" /\ req'.op = "delete_tool" /\ req'.tid \in DOMAIN tools)
          => /\ resp'.status = 200
             /\ req'.tid \notin DOMAIN tools'
             /\ \A u \in DOMAIN users' : req'.tid \notin users'[u].tools

BodyOps == {"login", "refresh"} \cup ToolPaths

\* names a credential could travel under
SecretFields ==
    {"password", "password_hash", "hashed_password", "current_password",
     "new_password"}

\* the field names of a response body, those of its user object included
FieldNames(body) ==
    DOMAIN body \cup (IF "user" \in DOMAIN body THEN DOMAIN body.user ELSE {})

\* password hashes a user could have instead of the stored one
OtherHashes == {get_password_hash(p) : p \in NewPasswords}

\* the user's row with another password hash
Rehashed(user_id, h) == [users[user_id] EXCEPT !.password_hash = h]

C19_NoSecretField ==
    (req.op \in BodyOps /\ resp.status # 0)
       => FieldNames(resp) \cap SecretFields = {}

\* the body of a successful response is the one the same request gets from
\* a store that differs in the user's password hash only
C19_HashBlind ==
    /\ (req.op = "login" /\ resp.status = 200)
          => \A h \in OtherHashes : resp = Token(resp.uid, Rehashed(resp.uid, h))
    /\ (req.op = "refresh" /\ resp.status = 200)
          => /\ DOMAIN resp = {"status", "access_token", "token_type"}
             /\ \E u \in DOMAIN users :
                   resp.access_token = create_access_token(users[u].username, u)
    /\ (Served /\ req.op = "GET /tools" /\ resp.status = 200)
          => \A h \in OtherHashes : resp = get_user_tools_route(Rehashed(cur, h))
    /\ (Served /\ req.op = "GET /tools/{tool_id}" /\ resp.status = 200)
          => \A h \in OtherHashes :
                resp = get_tool_route(Rehashed(cur, h), req.tool_id)

Weak(password) ==
    \/ Len(password) < 8
    \/ \A i \in 1..Len(password) : password[i] \in DIGITS
    \/ \A i \in 1..Len(password) : password[i] \in UPPERCASE \cup LOWERCASE

C20_Step ==
    (req.op = "none" /\ req'.op = "create_user" /\ Weak(req'.d.password))
       => (resp'.status \in {400, 422} /\ users' = users)

\* C20: user creation rejects a weak password with 400 or 422 and creates no
\* user: a password shorter than the policy minimum, of digits only
\* ('12345678') or of letters only ('abcdefgh', 'password') is not accepted
\* by the UserCreate validation.
C20_WeakPasswordRejected == [][C20_Step]_vars

\* C21: a client sending requests in rapid succession, /health included, is
\* throttled: among 100 consecutive requests of one client identity at least
\* one is answered 429.
C21_BurstThrottled ==
    \A c \in Clients : limiter.sent[c] >= 100 => c \in limiter.throttled

\* no committed row shows the role superuser together with tool rows
C22_Committed ==
    \A u \in DOMAIN users :
       has_superuser(users[u].roles \cap DOMAIN roles) => users[u].tools = {}

\* a commit that makes the role superuser visible leaves no tool row visible
C22_Step ==
    \A u \in DOMAIN users \cap DOMAIN users' :
       (~has_superuser(users[u].roles) /\ has_superuser(users'[u].roles))
          => users'[u].tools = {}

\* C22: in every interleaving of concurrent update_user calls on one user
\* (one giving it the role superuser, another changing its tools, tool_ids
\* supplied with every role change) no committed state shows the user with
\* the role superuser and explicit tool rows: the role change and the
\* clearing of the tools become visible together.
C22_PromotionAtomic == []C22_Committed /\ [][C22_Step]_vars

\* worker w is about to commit a reset
Committing(w) ==
    procs[w].pc = "commit" /\ procs[w].op = "reset_user_password"

\* a reset that commits its hash finds the hash it verified against
C23_Step ==
    \A w \in Workers :
       (Committing(w) /\ procs'[w].pc = "done" /\ procs'[w].status = 200)
          => users[procs[w].uid].password_hash = procs[w].seen

\* C23: a reset that verified current_password against the stored hash h
\* commits its new hash only if the stored hash is still h at commit time;
\* two concurrent resets presenting the same original password cannot both
\* take effect.
C23_ResetCompareAndSet == [][C23_Step]_vars

\* the hashes a reset may leave: the original one and those of the submitted
\* new passwords that satisfy the policy
C24_Hashes ==
    {get_password_hash(d.password) : d \in ResetCreates}
       \cup {get_password_hash(n) : n \in {m \in ResetNew : strength_error(m) = ""}}

C24_Whole == \A u \in DOMAIN users : users[u].password_hash \in C24_Hashes

\* the hash changes only by the commit of a reset, and to that reset's hash
C24_Step ==
    \A u \in DOMAIN users \cap DOMAIN users' :
       users'[u].password_hash # users[u].password_hash
          => \E w \in Workers :
                /\ Committing(w) /\ procs[w].uid = u
                /\ procs'[w].pc = "done" /\ procs'[w].status = 200
                /\ users'[u].password_hash = procs[w].password_hash

\* C24: in every interleaving of concurrent resets on one account the stored
\* hash is the original hash or the complete hash of one of the submitted
\* policy-compliant passwords, never a partial or mixed value, and it is the
\* hash written by the last committed reset.
C24_HashNeverMixed == []C24_Whole /\ [][C24_Step]_vars

\* two resets have committed one after the other, the second over the first
C24_Witness ==
    /\ \A w \in Workers : procs[w].pc = "done" /\ procs[w].status = 200
    /\ procs["w1"].password_hash # procs["w2"].password_hash
    /\ \E u \in DOMAIN users : users[u].password_hash = procs["w2"].password_hash

\* C25: a token never authenticates an account other than the one it was
\* issued to: in every reachable state, also after a rename and after a user
\* is deleted and another is created or renamed to the freed username,
\* get_user_from_token applied to a token issued to the user with id a
\* returns no user or the user with id a.
C25_TokenBoundToAccount ==
    \A token \in issued :
       get_user_from_token(token, token.typ) \in {NoUser, token.uid}

\* no two rows have the same username or the same email
C26_OneRow ==
    \A u, v \in DOMAIN users :
       u # v => /\ users[u].username # users[v].username
                /\ users[u].email # users[v].email

\* a create_user call that ends without a row of its own ends with 400
C26_Step ==
    \A w \in Workers :
       (/\ procs[w].pc # "done"
        /\ procs'[w].pc = "done" /\ procs'[w].op = "create_user"
        /\ users' = users)
          => procs'[w].status = 400

\* C26: of two concurrent create_user calls whose usernames (or emails) are
\* equal after lowercasing at most one creates a row, in every interleaving
\* of their existence checks and commits, and the other fails with the
\* Conflict outcome (400), not with an unhandled internal error.
C26_DuplicateIsConflict == []C26_OneRow /\ [][C26_Step]_vars

\* the role_ids and tool_ids of a create_user or update_user request
RequestedRoles(r) ==
    IF r.op = "create_user" THEN r.d.role_ids
    ELSE IF IsSet(r.d.role_ids) THEN Get(r.d.role_ids) ELSE {}

RequestedTools(r) ==
    IF r.op = "create_user" THEN r.d.tool_ids
    ELSE IF IsSet(r.d.tool_ids) THEN Get(r.d.tool_ids) ELSE {}

\* the request names a role or a tool that no row has
UnknownReference(r) ==
    \/ ~(RequestedRoles(r) \subseteq DOMAIN roles)
    \/ ~(RequestedTools(r) \subseteq DOMAIN tools)

\* a create_user or update_user call naming an unknown role or tool, and
\* not rejected as a conflict before, ends with 404 and writes nothing
C27_Step ==
    (/\ req.op = "none"
     /\ req'.op \in {"create_user", "update_user"}
     /\ UnknownReference(req')
     /\ resp'.status # 400)
       => resp'.status = 404 /\ users' = users

\* C27: create_user and update_user called with a role_ids or tool_ids list
\* that contains an id matching no existing Role or Tool fail with NotFound
\* (404) and leave the store unchanged.
C27_UnknownIdNotFound == [][C27_Step]_vars

\* the login fails for an unknown username or for a wrong password
UnknownOrWrong(username, password) ==
    LET user == get_user_by_username(users, username)
    IN user = NoUser \/ ~verify_password(password, users[user].password_hash)

\* a login that fails for either reason has run the user lookup and then a
\* password-hash verification
C28_Step ==
    (/\ req.op = "none" /\ req'.op = "login"
     /\ UnknownOrWrong(req'.username, req'.password))
       => /\ resp'.status = 401
          /\ authenticate_user_steps(req'.username, req'.password)
                = <<"query", "verify_password">>

\* C28: authenticate_user follows the same branch structure for an unknown
\* username as for a wrong password: in both cases the executed steps are the
\* user lookup followed by a password-hash verification before the failure
\* is returned, so the two cases cannot be told apart by which steps ran.
C28_SameBranchStructure == [][C28_Step]_vars

\* the ids of the roles of the given name
RolesNamed(rs, name) == {r \in DOMAIN rs : rs[r] = name}

\* an application of the rename raises no error, leaves no role named itra,
\* keeps every role's id and every user's role rows, turns each itra into
\* itar, keeps the names unique, and changes nothing when applied again
C29_Step ==
    (req.op = "none" /\ req'.op \in {"update_itra_to_itar", "upgrade"})
       => /\ resp'.status = 200
          /\ DOMAIN roles' = DOMAIN roles
          /\ RolesNamed(roles', "itra") = {}
          /\ RolesNamed(roles, "itra") \subseteq RolesNamed(roles', "itar")
          /\ users' = users
          /\ \A r, q \in DOMAIN roles' : r # q => roles'[r] # roles'[q]
          /\ renamed(roles', "itra", "itar") = roles'
          /\ ~rename_violation(roles', "itra", "itar")

C30_SessionClosed ==
    (req.op \in {"reset_user_password", "health_check"} /\ resp.status # 0)
       => db_session = "closed"

====
